---- MODULE Spec2Model ----
(***************************************************************************)
(* A model of whiteout's decoration parser, clean/smudge transforms and    *)
(* local value store.                                                      *)
(*                                                                         *)
(* Text is a sequence of tokens.  A token is an indivisible piece of text: *)
(* a letter ("a", "b", "z"), a space, a newline, a comment delimiter       *)
(* ("//", "#"), the marker stem "@whiteout" and its suffixes (":",         *)
(* "-start", "-end", "-partial"), the backslash, the quote and the bracket *)
(* tokens "[[", "||", "]]".  Substring tests, regular expressions, trim,   *)
(* lines(), join and format! are computed on these sequences exactly as    *)
(* the Rust code computes them on bytes.                                   *)
(***************************************************************************)
EXTENDS Naturals, Sequences, FiniteSets, TLC

VARIABLES
    content,   \* the text of the file being filtered
    orig,      \* the text before the first transform
    prev,      \* the text before the last transform
    ops,       \* the transforms (or store calls) made so far, in order
    fs,        \* the store: .whiteout directory and local.toml
    fs0,       \* the store before the first transform
    ret,       \* the result of the last store call
    shadow,    \* reference map from <<file, key>> to value for the store calls
    procs,     \* the processes writing the store file: pid -> [kind, pc, data]
    tmp,       \* the temporary files next to local.toml: path -> content
    inner      \* the in-memory state of a BatchedStorage

vars == <<content, orig, prev, ops, fs, fs0, ret, shadow, procs, tmp, inner>>

\* The variables of the concurrent writers and of the batched store, which
\* the single-process transforms and LocalStorage calls do not have.
concVars == <<procs, tmp, inner>>
NoConc == procs = <<>> /\ tmp = <<>> /\ inner = <<>>

(***************************************************************************)
(* Bounds of the model.                                                    *)
(***************************************************************************)
MaxLines == 3
MaxCalls == 3

(***************************************************************************)
(* String helpers (Rust std: str::contains, str::trim, str::lines,        *)
(* [T]::join, str::ends_with).                                             *)
(***************************************************************************)
NL == "\n"

IsWs(t) == t = " "

Tail2(s, k) == SubSeq(s, k + 1, Len(s))

StartsWith(s, p) == Len(s) >= Len(p) /\ SubSeq(s, 1, Len(p)) = p

Contains(s, p) ==
    \E i \in 1..(Len(s) + 1) : StartsWith(Tail2(s, i - 1), p)

RECURSIVE TrimStart(_)
TrimStart(s) == IF s # <<>> /\ IsWs(Head(s)) THEN TrimStart(Tail(s)) ELSE s

RECURSIVE TrimEnd(_)
TrimEnd(s) ==
    IF s # <<>> /\ IsWs(s[Len(s)]) THEN TrimEnd(SubSeq(s, 1, Len(s) - 1)) ELSE s

Trim(s) == TrimEnd(TrimStart(s))

RECURSIVE Join(_, _)
Join(ls, sep) ==
    IF ls = <<>> THEN <<>>
    ELSE IF Len(ls) = 1 THEN ls[1]
    ELSE ls[1] \o sep \o Join(Tail(ls), sep)

EndsWithNl(s) == s # <<>> /\ s[Len(s)] = NL

\* Position of the first newline of s, 0 if none.
RECURSIVE FirstNl(_, _)
FirstNl(s, i) ==
    IF i > Len(s) THEN 0 ELSE IF s[i] = NL THEN i ELSE FirstNl(s, i + 1)

\* str::lines(): split at "\n"; a final empty piece is not a line.
RECURSIVE Lines(_)
Lines(s) ==
    IF s = <<>> THEN <<>>
    ELSE LET n == FirstNl(s, 1) IN
         IF n = 0 THEN <<s>>
         ELSE <<SubSeq(s, 1, n - 1)>> \o Lines(Tail2(s, n))

ToStr(n) ==
    CASE n = 0 -> "0" [] n = 1 -> "1" [] n = 2 -> "2" [] n = 3 -> "3"
      [] n = 4 -> "4" [] n = 5 -> "5" [] n = 6 -> "6" [] n = 7 -> "7"
      [] n = 8 -> "8" [] n = 9 -> "9" [] OTHER -> "N"

(***************************************************************************)
(* Marker grammar.                                                         *)
(***************************************************************************)
MARK == "@whiteout"

BlockDelims == {"//", "#", "--", "/*", "*"}
InlineDelims == {"//", "#", "--"}

\* ^\s*(?://|#|--|/\*|\*)\s*<marker>\s*(?:\*/)?$
MarkerLine(line, marker) ==
    LET a == TrimStart(line) IN
    /\ a # <<>>
    /\ Head(a) \in BlockDelims
    /\ LET b == TrimStart(Tail(a)) IN
       /\ StartsWith(b, marker)
       /\ LET c == TrimStart(Tail2(b, Len(marker))) IN
          c = <<>> \/ c = <<"*/">>

START_PATTERN(line) == MarkerLine(line, <<MARK, "-start">>)
END_PATTERN(line) == MarkerLine(line, <<MARK, "-end">>)
SIMPLE_PATTERN(line) == MarkerLine(line, <<MARK>>)

\* The tail of INLINE_PATTERN after the lazy first group:
\* \s*(?://|#|--)\s*@whiteout:\s*(.+?)$
InlineTail(r) ==
    LET a == TrimStart(r) IN
    /\ a # <<>>
    /\ Head(a) \in InlineDelims
    /\ LET b == TrimStart(Tail(a)) IN
       /\ StartsWith(b, <<MARK, ":">>)
       /\ Len(b) >= 3

\* The text after "@whiteout:" in a tail that InlineTail accepts.
InlineAfterColon(r) == Tail2(TrimStart(Tail(TrimStart(r))), 2)

\* The comment delimiter of a tail that InlineTail accepts.
InlineDelimOf(r) == Head(TrimStart(r))

\* Length of the lazy first group (.+?): the shortest non-empty prefix after
\* which the tail matches; 0 when the line does not match.
RECURSIVE InlineSplit(_, _)
InlineSplit(line, k) ==
    IF k >= Len(line) THEN 0
    ELSE IF InlineTail(Tail2(line, k)) THEN k
    ELSE InlineSplit(line, k + 1)

INLINE_PATTERN(line) == InlineSplit(line, 1) > 0

\* //\s*@whiteout-partial, anywhere in the line
DECORATOR_PATTERN(line) ==
    \E i \in 1..Len(line) :
        /\ line[i] = "//"
        /\ StartsWith(TrimStart(Tail2(line, i)), <<MARK, "-partial">>)

\* Index of the first token t at or after i with s[j] = t, 0 if none.
RECURSIVE IndexFrom(_, _, _)
IndexFrom(s, t, i) ==
    IF i > Len(s) THEN 0 ELSE IF s[i] = t THEN i ELSE IndexFrom(s, t, i + 1)

\* One match of \[\[([^|]+)\|\|([^\]]+)\]\] starting exactly at token p:
\* <<q>> with q the index of the closing "]]" and m the index of "||",
\* or <<>> when there is none.
PartialAt(line, p) ==
    IF p > Len(line) \/ line[p] # "[[" THEN <<>>
    ELSE LET m == IndexFrom(line, "||", p + 1) IN
         IF m = 0 \/ m = p + 1 THEN <<>>
         ELSE LET q == IndexFrom(line, "]]", m + 1) IN
              IF q = 0 \/ q = m + 1 THEN <<>>
              ELSE <<[start |-> p - 1, end |-> q,
                      local_value |-> SubSeq(line, p + 1, m - 1),
                      committed_value |-> SubSeq(line, m + 1, q - 1)]>>

\* PATTERN.captures_iter(line): leftmost, non-overlapping matches.
RECURSIVE CapturesIter(_, _)
CapturesIter(line, p) ==
    IF p > Len(line) THEN <<>>
    ELSE LET r == PartialAt(line, p) IN
         IF r = <<>> THEN CapturesIter(line, p + 1)
         ELSE r \o CapturesIter(line, r[1].end + 1)

(***************************************************************************)
(* Decorations (parser/mod.rs) and the four detectors.                     *)
(***************************************************************************)
Inline(line, local_value, committed_value) ==
    [kind |-> "Inline", line |-> line, local_value |-> local_value,
     committed_value |-> committed_value]

Block(start_line, end_line, local_content, committed_content) ==
    [kind |-> "Block", start_line |-> start_line, end_line |-> end_line,
     local_content |-> local_content, committed_content |-> committed_content]

Partial(line, replacements) ==
    [kind |-> "Partial", line |-> line, replacements |-> replacements]

ESC_INLINE == <<"\\", MARK, ":">>
ESC_START == <<"\\", MARK, "-start">>
ESC_ANY == <<"\\", MARK>>

\* InlineParser::parse, the body of the loop for one line (0-based line_num).
InlineLine(line, line_num) ==
    IF Contains(line, ESC_INLINE) THEN <<>>
    ELSE LET k == InlineSplit(line, 1) IN
         IF k = 0 THEN <<>>
         ELSE <<Inline(line_num + 1,
                       Trim(SubSeq(line, 1, k)),
                       Trim(InlineAfterColon(Tail2(line, k))))>>

RECURSIVE InlineLoop(_, _)
InlineLoop(lines, i) ==
    IF i >= Len(lines) THEN <<>>
    ELSE InlineLine(lines[i + 1], i) \o InlineLoop(lines, i + 1)

InlineParser_parse(text) == InlineLoop(Lines(text), 0)

\* BlockParser::parse, the inner loop that looks for the end marker: the
\* 0-based index of the first END_PATTERN line at or after i, else lines.len().
RECURSIVE FindEnd(_, _)
FindEnd(lines, i) ==
    IF i < Len(lines) /\ ~END_PATTERN(lines[i + 1]) THEN FindEnd(lines, i + 1)
    ELSE i

\* BlockParser::parse, the loop that collects the committed lines.
RECURSIVE CommittedLoop(_, _, _)
CommittedLoop(lines, i, committed_lines) ==
    IF i >= Len(lines) THEN [i |-> i, committed_lines |-> committed_lines]
    ELSE IF i + 1 < Len(lines) /\ START_PATTERN(lines[i + 2])
         THEN [i |-> i, committed_lines |-> committed_lines]
    ELSE IF START_PATTERN(lines[i + 1]) \/ END_PATTERN(lines[i + 1])
         THEN [i |-> i, committed_lines |-> committed_lines]
    ELSE LET cl == Append(committed_lines, lines[i + 1])
             j == i + 1
         IN IF j >= Len(lines) \/ Trim(lines[j + 1]) = <<>>
               \/ START_PATTERN(lines[j + 1])
            THEN [i |-> j, committed_lines |-> cl]
            ELSE CommittedLoop(lines, j, cl)

\* A block detector that does not require the end marker: an unterminated
\* start marker opens a block running to the end of the text.
RECURSIVE BlockLoop_NoEndCheck(_, _)
BlockLoop_NoEndCheck(lines, i) ==
    IF i >= Len(lines) THEN <<>>
    ELSE IF START_PATTERN(lines[i + 1]) /\ ~Contains(lines[i + 1], ESC_START)
    THEN LET start_line == i + 1
             e == FindEnd(lines, i + 1)
             local_lines == SubSeq(lines, i + 2, e)
             c == CommittedLoop(lines, e + 1, <<>>)
         IN <<Block(start_line,
                    start_line + Len(local_lines) + 1,
                    Join(local_lines, <<NL>>),
                    Join(c.committed_lines, <<NL>>))>>
            \o BlockLoop_NoEndCheck(lines, IF c.i > i THEN c.i ELSE i + 1)
    ELSE BlockLoop_NoEndCheck(lines, i + 1)

RECURSIVE BlockLoop(_, _)
BlockLoop(lines, i) ==
    IF i >= Len(lines) THEN <<>>
    ELSE IF START_PATTERN(lines[i + 1]) /\ ~Contains(lines[i + 1], ESC_START)
    THEN LET start_line == i + 1
             e == FindEnd(lines, i + 1)
         IN IF e < Len(lines) /\ END_PATTERN(lines[e + 1])
            THEN LET local_lines == SubSeq(lines, i + 2, e)
                     c == CommittedLoop(lines, e + 1, <<>>)
                 IN <<Block(start_line,
                            start_line + Len(local_lines) + 1,
                            Join(local_lines, <<NL>>),
                            Join(c.committed_lines, <<NL>>))>>
                    \o BlockLoop(lines, c.i)
            ELSE <<>>
    ELSE BlockLoop(lines, i + 1)

BlockParser_parse(text) == BlockLoop(Lines(text), 0)

SimpleMarker(line) ==
    /\ SIMPLE_PATTERN(line)
    /\ ~Contains(line, ESC_ANY)
    /\ ~Contains(line, <<MARK, "-start">>)
    /\ ~Contains(line, <<MARK, "-end">>)
    /\ ~Contains(line, <<MARK, ":">>)
    /\ ~Contains(line, <<MARK, "-partial">>)

RECURSIVE SimpleLoop(_, _)
SimpleLoop(lines, i) ==
    IF i >= Len(lines) THEN <<>>
    ELSE IF SimpleMarker(lines[i + 1])
    THEN LET start_line == i + 1 IN
         IF i + 1 < Len(lines)
         THEN <<Block(start_line, start_line + 1, lines[i + 2], <<>>)>>
              \o SimpleLoop(lines, i + 2)
         ELSE SimpleLoop(lines, i + 1)
    ELSE SimpleLoop(lines, i + 1)

SimpleParser_parse(text) == SimpleLoop(Lines(text), 0)

\* A partial detector without the opt-in: every [[a||b]] token counts.
PartialLine_NoOptIn(line, line_num) ==
    LET replacements == CapturesIter(line, 1) IN
    IF replacements = <<>> THEN <<>>
    ELSE <<Partial(line_num + 1, replacements)>>

PartialLine(line, line_num) ==
    IF ~DECORATOR_PATTERN(line) THEN <<>>
    ELSE LET replacements == CapturesIter(line, 1) IN
         IF replacements = <<>> THEN <<>>
         ELSE <<Partial(line_num + 1, replacements)>>

RECURSIVE PartialLoop(_, _)
PartialLoop(lines, i) ==
    IF i >= Len(lines) THEN <<>>
    ELSE PartialLine(lines[i + 1], i) \o PartialLoop(lines, i + 1)

PartialParser_parse(text) == PartialLoop(Lines(text), 0)

\* Parser::parse: Simple, Inline, Block, Partial, concatenated.
Parser_parse(text) ==
    SimpleParser_parse(text) \o InlineParser_parse(text)
    \o BlockParser_parse(text) \o PartialParser_parse(text)

(***************************************************************************)
(* The transform engine.  Two renderings exist in the source: the method   *)
(* Parser::apply_decorations (parser/mod.rs), which transform::clean and   *)
(* transform::smudge call, and the free function apply_decorations         *)
(* (parser/apply.rs).                                                      *)
(***************************************************************************)
\* Index of the first decoration of `kind` anchored at line_num, 0 if none.
RECURSIVE FirstAt(_, _, _, _)
FirstAt(decorations, kind, line_num, i) ==
    IF i > Len(decorations) THEN 0
    ELSE LET d == decorations[i] IN
         IF d.kind = kind
            /\ (IF kind = "Block" THEN d.start_line ELSE d.line) = line_num
         THEN i
         ELSE FirstAt(decorations, kind, line_num, i + 1)

\* String::replace_range(start..end.min(len), new), guarded by start < len.
ReplaceRange(s, start, end, new) ==
    IF start < Len(s)
    THEN LET e == IF end < Len(s) THEN end ELSE Len(s) IN
         SubSeq(s, 1, start) \o new \o Tail2(s, e)
    ELSE s

Bracket(x, y) == <<"[[">> \o x \o <<"||">> \o y \o <<"]]">>

\* parser/mod.rs: the replacements of one Partial line, last one first.
RECURSIVE ParserPartialRev(_, _, _, _)
ParserPartialRev(processed_line, replacements, use_local, j) ==
    IF j = 0 THEN processed_line
    ELSE LET r == replacements[j]
             new_value == IF use_local
                          THEN Bracket(r.local_value, r.committed_value)
                          ELSE r.committed_value
         IN ParserPartialRev(
                ReplaceRange(processed_line, r.start, r.end, new_value),
                replacements, use_local, j - 1)

\* parser/apply.rs: the replacements of one Partial line, last one first.
RECURSIVE ApplyPartialRev(_, _, _, _)
ApplyPartialRev(processed_line, replacements, use_local, j) ==
    IF j = 0 THEN processed_line
    ELSE LET r == replacements[j]
             new_value == IF use_local
                          THEN Bracket(r.local_value, r.committed_value)
                          ELSE Bracket(r.committed_value, r.committed_value)
         IN ApplyPartialRev(
                ReplaceRange(processed_line, r.start, r.end, new_value),
                replacements, use_local, j - 1)

\* The end-marker line, pushed only if end_line <= lines.len().
EndMarker(lines, end_line) ==
    IF end_line <= Len(lines) THEN <<lines[end_line]>> ELSE <<>>

\* A rendering step that tries the Partial decoration of a line before its
\* Inline decoration.
ParserStep_PartialFirst(lines, decorations, use_local, line_num, skip_until) ==
    LET line == lines[line_num]
        b == FirstAt(decorations, "Block", line_num, 1)
        n == FirstAt(decorations, "Inline", line_num, 1)
        p == FirstAt(decorations, "Partial", line_num, 1)
    IN IF b > 0
       THEN LET d == decorations[b]
                committed_lines == Len(Lines(d.committed_content))
            IN IF use_local
               THEN [push |-> <<line>> \o Lines(d.local_content)
                                \o EndMarker(lines, d.end_line),
                     skip |-> d.end_line + committed_lines]
               ELSE [push |-> Lines(d.committed_content),
                     skip |-> d.end_line + committed_lines]
       ELSE IF p > 0
       THEN LET d == decorations[p] IN
            [push |-> <<ParserPartialRev(line, d.replacements, use_local,
                                         Len(d.replacements))>>,
             skip |-> skip_until]
       ELSE IF n > 0
       THEN LET d == decorations[n] IN
            IF use_local
            THEN [push |-> <<d.local_value
                             \o <<" ", "//", " ", MARK, ":", " ", "\"">>
                             \o d.committed_value \o <<"\"">> >>,
                  skip |-> skip_until]
            ELSE [push |-> <<d.committed_value>>, skip |-> skip_until]
       ELSE [push |-> <<line>>, skip |-> skip_until]

\* Parser::apply_decorations (parser/mod.rs), the body of the loop for one
\* line that is not skipped: what is pushed, and the new skip_until.
ParserStep(lines, decorations, use_local, line_num, skip_until) ==
    LET line == lines[line_num]
        b == FirstAt(decorations, "Block", line_num, 1)
        n == FirstAt(decorations, "Inline", line_num, 1)
        p == FirstAt(decorations, "Partial", line_num, 1)
    IN IF b > 0
       THEN LET d == decorations[b]
                committed_lines == Len(Lines(d.committed_content))
            IN IF use_local
               THEN [push |-> <<line>> \o Lines(d.local_content)
                                \o EndMarker(lines, d.end_line),
                     skip |-> d.end_line + committed_lines]
               ELSE [push |-> Lines(d.committed_content),
                     skip |-> d.end_line + committed_lines]
       ELSE IF n > 0
       THEN LET d == decorations[n] IN
            IF use_local
            THEN [push |-> <<d.local_value
                             \o <<" ", "//", " ", MARK, ":", " ", "\"">>
                             \o d.committed_value \o <<"\"">> >>,
                  skip |-> skip_until]
            ELSE [push |-> <<d.committed_value>>, skip |-> skip_until]
       ELSE IF p > 0
       THEN LET d == decorations[p] IN
            [push |-> <<ParserPartialRev(line, d.replacements, use_local,
                                         Len(d.replacements))>>,
             skip |-> skip_until]
       ELSE [push |-> <<line>>, skip |-> skip_until]

RECURSIVE ParserLoop(_, _, _, _, _)
ParserLoop(lines, decorations, use_local, line_num, skip_until) ==
    IF line_num > Len(lines) THEN <<>>
    ELSE IF line_num <= skip_until
    THEN ParserLoop(lines, decorations, use_local, line_num + 1, skip_until)
    ELSE LET st == ParserStep(lines, decorations, use_local, line_num,
                              skip_until)
         IN st.push \o ParserLoop(lines, decorations, use_local,
                                  line_num + 1, st.skip)

Parser_apply_decorations(text, decorations, use_local) ==
    Join(ParserLoop(Lines(text), decorations, use_local, 1, 0), <<NL>>)

\* apply.rs: is_simple_pattern
IsSimplePattern(line) ==
    /\ Contains(line, <<MARK>>)
    /\ ~Contains(line, <<MARK, "-start">>)
    /\ ~Contains(line, <<MARK, ":">>)

\* apply_decorations (parser/apply.rs), the body of the loop for one line.
ApplyStep(lines, decorations, use_local, line_num, skip_until) ==
    LET line == lines[line_num]
        b == FirstAt(decorations, "Block", line_num, 1)
        n == FirstAt(decorations, "Inline", line_num, 1)
        p == FirstAt(decorations, "Partial", line_num, 1)
    IN IF b > 0
       THEN LET d == decorations[b]
                committed_lines == Len(Lines(d.committed_content))
            IN IF use_local
               THEN IF IsSimplePattern(line)
                    THEN [push |-> <<line>> \o Lines(d.local_content),
                          skip |-> d.end_line]
                    ELSE [push |-> <<line>> \o Lines(d.local_content)
                                     \o EndMarker(lines, d.end_line),
                          skip |-> d.end_line + committed_lines]
               ELSE IF IsSimplePattern(line)
                    THEN [push |-> <<line>>, skip |-> d.end_line]
                    ELSE [push |-> <<line>> \o EndMarker(lines, d.end_line)
                                     \o Lines(d.committed_content),
                          skip |-> d.end_line + committed_lines]
       ELSE IF n > 0
       THEN LET d == decorations[n] IN
            [push |-> <<(IF use_local THEN d.local_value
                         ELSE d.committed_value)
                        \o <<" ", "//", " ", MARK, ":", " ">>
                        \o d.committed_value>>,
             skip |-> skip_until]
       ELSE IF p > 0
       THEN LET d == decorations[p] IN
            [push |-> <<ApplyPartialRev(line, d.replacements, use_local,
                                        Len(d.replacements))>>,
             skip |-> skip_until]
       ELSE [push |-> <<line>>, skip |-> skip_until]

RECURSIVE ApplyLoop(_, _, _, _, _)
ApplyLoop(lines, decorations, use_local, line_num, skip_until) ==
    IF line_num > Len(lines) THEN <<>>
    ELSE IF line_num <= skip_until
    THEN ApplyLoop(lines, decorations, use_local, line_num + 1, skip_until)
    ELSE LET st == ApplyStep(lines, decorations, use_local, line_num,
                             skip_until)
         IN st.push \o ApplyLoop(lines, decorations, use_local,
                                 line_num + 1, st.skip)

apply_decorations(text, decorations, use_local) ==
    IF decorations = <<>> THEN text
    ELSE LET output == Join(ApplyLoop(Lines(text), decorations, use_local,
                                      1, 0), <<NL>>)
         IN IF EndsWithNl(text) /\ ~EndsWithNl(output)
            THEN Append(output, NL)
            ELSE output

(***************************************************************************)
(* The local value store (storage/local.rs).  The store file holds the     *)
(* StorageData that toml::to_string_pretty wrote and toml::from_str reads  *)
(* back: a map from the composite key to the entry's value.  `dir` tells   *)
(* whether the .whiteout directory exists, `exists` whether local.toml     *)
(* does.                                                                   *)
(***************************************************************************)
RootPath == <<"root">>

NoEntries == [k \in {} |-> <<>>]

NewFs ==
    [dir |-> FALSE, exists |-> FALSE, valid |-> FALSE, entries |-> NoEntries]

\* LocalStorage::init: creates the directory and an empty store file.
InitFs ==
    [dir |-> TRUE, exists |-> TRUE, valid |-> TRUE, entries |-> NoEntries]

\* A store whose local.toml cannot be read or does not parse as TOML.
CorruptFs ==
    [dir |-> TRUE, exists |-> TRUE, valid |-> FALSE, entries |-> NoEntries]

\* Path::strip_prefix(root).unwrap_or(path), on path components.
StripPrefix(path, root) ==
    IF StartsWith(path, root) THEN Tail2(path, Len(root)) ELSE path

\* Path::display(): the components joined by "/".
RECURSIVE Display(_)
Display(path) ==
    IF path = <<>> THEN <<>>
    ELSE IF Len(path) = 1 THEN <<path[1]>>
    ELSE <<path[1], "/">> \o Display(Tail(path))

make_storage_key(file_path, key) ==
    Display(StripPrefix(file_path, RootPath)) \o <<"::">> \o key

\* load_data: Ok(default) when the file is missing, Err when its content
\* does not parse (valid = FALSE), else Ok(entries).
load_data(f) ==
    IF ~f.exists THEN [ok |-> TRUE, data |-> NoEntries]
    ELSE IF f.valid THEN [ok |-> TRUE, data |-> f.entries]
    ELSE [ok |-> FALSE, data |-> NoEntries]

Insert(entries, k, v) ==
    [x \in DOMAIN entries \cup {k} |-> IF x = k THEN v ELSE entries[x]]

Remove(entries, k) == [x \in DOMAIN entries \ {k} |-> entries[x]]

\* store_value: load, insert, create_dir_all, write.
store_value(f, file_path, key, value) ==
    LET l == load_data(f) IN
    IF ~l.ok THEN [ok |-> FALSE, fs |-> f]
    ELSE [ok |-> TRUE,
          fs |-> [dir |-> TRUE, exists |-> TRUE, valid |-> TRUE,
                  entries |-> Insert(l.data,
                                     make_storage_key(file_path, key), value)]]

\* get_value: Ok(value); Err when the load fails (fatal) or when the key has
\* no entry.
get_value(f, file_path, key) ==
    LET k == make_storage_key(file_path, key)
        l == load_data(f)
    IN IF ~l.ok THEN [ok |-> FALSE, value |-> <<>>, fatal |-> TRUE]
       ELSE IF k \in DOMAIN l.data
       THEN [ok |-> TRUE, value |-> l.data[k], fatal |-> FALSE]
       ELSE [ok |-> FALSE, value |-> <<>>, fatal |-> FALSE]

\* remove_value: load, remove, write (fs::write fails when the directory
\* is missing: there is no create_dir_all here).
remove_value(f, file_path, key) ==
    LET l == load_data(f) IN
    IF l.ok /\ f.dir
    THEN [ok |-> TRUE,
          fs |-> [dir |-> TRUE, exists |-> TRUE, valid |-> TRUE,
                  entries |-> Remove(l.data,
                                     make_storage_key(file_path, key))]]
    ELSE [ok |-> FALSE, fs |-> f]

(***************************************************************************)
(* transform/clean.rs and transform/smudge.rs.                             *)
(***************************************************************************)
InlineKey(line) == <<"inline_", ToStr(line)>>
BlockKey(start_line) == <<"block_", ToStr(start_line)>>
PartialKey(line, idx) == <<"partial_", ToStr(line), "_", ToStr(idx)>>

\* clean: the store_value calls of one Partial decoration, idx = 0, 1, ...;
\* r is the result so far, and the first Err ends the calls (the ? operator).
RECURSIVE StorePartial(_, _, _, _)
StorePartial(r, file_path, d, idx) ==
    IF ~r.ok \/ idx >= Len(d.replacements) THEN r
    ELSE StorePartial(
             store_value(r.fs, file_path, PartialKey(d.line, idx),
                         d.replacements[idx + 1].local_value),
             file_path, d, idx + 1)

\* clean: "Store all local values", one decoration after the other.
RECURSIVE StoreAll(_, _, _, _)
StoreAll(r, file_path, decorations, i) ==
    IF ~r.ok \/ i > Len(decorations) THEN r
    ELSE LET d == decorations[i]
             r2 == CASE d.kind = "Inline" ->
                          store_value(r.fs, file_path, InlineKey(d.line),
                                      d.local_value)
                     [] d.kind = "Block" ->
                          store_value(r.fs, file_path, BlockKey(d.start_line),
                                      d.local_content)
                     [] d.kind = "Partial" ->
                          StorePartial(r, file_path, d, 0)
         IN StoreAll(r2, file_path, decorations, i + 1)

\* A clean whose output carries what the store held under inline_1 before
\* the call.
clean_FromStore(text, file_path, f) ==
    LET decorations == Parser_parse(text) IN
    IF decorations = <<>> THEN [ok |-> TRUE, out |-> text, fs |-> f]
    ELSE LET r == StoreAll([ok |-> TRUE, fs |-> f], file_path, decorations, 1)
             g == get_value(f, file_path, InlineKey(1))
         IN IF r.ok
            THEN [ok |-> TRUE,
                  out |-> Parser_apply_decorations(text, decorations, FALSE)
                              \o (IF g.ok THEN g.value ELSE <<>>),
                  fs |-> r.fs]
            ELSE [ok |-> FALSE, out |-> <<>>, fs |-> r.fs]

\* transform::clean::apply: Ok(text) or Err, and the store left behind.
clean(text, file_path, f) ==
    LET decorations == Parser_parse(text) IN
    IF decorations = <<>> THEN [ok |-> TRUE, out |-> text, fs |-> f]
    ELSE LET r == StoreAll([ok |-> TRUE, fs |-> f], file_path, decorations, 1)
         IN IF r.ok
            THEN [ok |-> TRUE,
                  out |-> Parser_apply_decorations(text, decorations, FALSE),
                  fs |-> r.fs]
            ELSE [ok |-> FALSE, out |-> <<>>, fs |-> r.fs]

\* A restore that never reads the store.
Restore_ParsedOnly(f, file_path, d) == d

\* smudge: a decoration with its local value replaced by the stored one,
\* when get_value returns Ok.
Restore(f, file_path, d) ==
    CASE d.kind = "Inline" ->
           LET g == get_value(f, file_path, InlineKey(d.line)) IN
           IF g.ok THEN [d EXCEPT !.local_value = g.value] ELSE d
      [] d.kind = "Block" ->
           LET g == get_value(f, file_path, BlockKey(d.start_line)) IN
           IF g.ok THEN [d EXCEPT !.local_content = g.value] ELSE d
      [] d.kind = "Partial" ->
           [d EXCEPT !.replacements =
               [j \in 1..Len(d.replacements) |->
                   LET g == get_value(f, file_path, PartialKey(d.line, j - 1))
                   IN IF g.ok
                      THEN [d.replacements[j] EXCEPT !.local_value = g.value]
                      ELSE d.replacements[j]]]

\* A smudge without the early return on undecorated text.
smudge_NoEarlyReturn(text, file_path, f) ==
    LET decorations == Parser_parse(text) IN
    Parser_apply_decorations(
        text,
        [i \in 1..Len(decorations) |-> Restore(f, file_path, decorations[i])],
        TRUE)

\* transform::smudge::apply.  The result is always Ok(text): every Err of
\* get_value, fatal or not, is dropped by `if let Ok(..)` in Restore.
smudge(text, file_path, f) ==
    LET decorations == Parser_parse(text) IN
    IF decorations = <<>> THEN text
    ELSE Parser_apply_decorations(
             text,
             [i \in 1..Len(decorations) |-> Restore(f, file_path, decorations[i])],
             TRUE)

(***************************************************************************)
(* The inputs: texts of at most MaxLines lines, each drawn from LineSet,   *)
(* with or without a final newline.                                        *)
(***************************************************************************)
L_a == <<"a">>
L_b == <<"b">>
L_blank == <<>>
L_start == <<"//", " ", MARK, "-start">>
L_end == <<"//", " ", MARK, "-end">>
L_simple == <<"//", " ", MARK>>
L_inline == <<"a", " ", "//", " ", MARK, ":", " ", "b">>
L_inline_hash == <<"a", " ", "#", " ", MARK, ":", " ", "b">>
L_partial == <<"[[", "a", "||", "b", "]]", " ", "//", " ", MARK, "-partial">>
L_brackets == <<"[[", "a", "||", "b", "]]">>
L_escaped == <<"a", " ", "//", " ", "\\", MARK, ":", " ", "b">>
L_escaped_partial ==
    <<"[[", "a", "||", "b", "]]", " ", "//", " ", "\\", MARK, ":", " ",
      "//", " ", MARK, "-partial">>

LineSet ==
    {L_a, L_b, L_blank, L_start, L_end, L_simple, L_inline, L_inline_hash,
     L_partial, L_brackets, L_escaped, L_escaped_partial}

Text(ls, nl) == Join(ls, <<NL>>) \o (IF nl THEN <<NL>> ELSE <<>>)

Contents ==
    {Text(ls, nl) : ls \in UNION {[1..n -> LineSet] : n \in 0..MaxLines},
                    nl \in BOOLEAN}

FilePath == <<"test.rs">>

\* A store that already holds values for the first line of FilePath.
PreFs ==
    [dir |-> TRUE, exists |-> TRUE, valid |-> TRUE,
     entries |-> [k \in {make_storage_key(FilePath, InlineKey(1)),
                         make_storage_key(FilePath, BlockKey(1)),
                         make_storage_key(FilePath, PartialKey(1, 0))}
                  |-> <<"z">>]]

(***************************************************************************)
(* Spec: a file is cleaned and smudged, in any order, against one store.   *)
(***************************************************************************)
\* The sequences of transforms that are run on one file.
Scenarios ==
    {<<"clean", "smudge">>, <<"clean", "clean">>, <<"smudge", "smudge">>}

IsPrefix(p, q) == Len(p) <= Len(q) /\ SubSeq(q, 1, Len(p)) = p

MayRun(op) == \E sc \in Scenarios : IsPrefix(Append(ops, op), sc)

Init ==
    /\ content \in Contents
    /\ orig = content
    /\ prev = content
    /\ ops = <<>>
    /\ fs \in {NewFs, PreFs}
    /\ fs0 = fs
    /\ ret = "none"
    /\ shadow = NoEntries
    /\ NoConc

\* Whiteout::clean
Clean ==
    /\ MayRun("clean")
    /\ LET r == clean(content, FilePath, fs) IN
       /\ content' = IF r.ok THEN r.out ELSE content
       /\ fs' = r.fs
       /\ ret' = IF r.ok THEN "ok" ELSE "err"
    /\ prev' = content
    /\ ops' = Append(ops, "clean")
    /\ UNCHANGED <<orig, fs0, shadow>>
    /\ UNCHANGED concVars

\* Whiteout::smudge
Smudge ==
    /\ MayRun("smudge")
    /\ content' = smudge(content, FilePath, fs)
    /\ ret' = "ok"
    /\ prev' = content
    /\ ops' = Append(ops, "smudge")
    /\ UNCHANGED <<orig, fs, fs0, shadow>>
    /\ UNCHANGED concVars

Next == Clean \/ Smudge

Spec == Init /\ [][Next]_vars

(***************************************************************************)
(* SpecStore: store_value, get_value and remove_value are called on one    *)
(* LocalStorage, in any order, next to a reference map.                    *)
(***************************************************************************)
Files == {<<"a.rs">>, <<"b.rs">>}
Keys == {InlineKey(1), BlockKey(1)}
Values == {<<"v">>, <<"w">>}

InitStore ==
    /\ content = <<>>
    /\ orig = <<>>
    /\ prev = <<>>
    /\ ops = <<>>
    /\ fs \in {NewFs, InitFs}
    /\ fs0 = fs
    /\ ret = "none"
    /\ shadow = NoEntries
    /\ NoConc

StoreValue(file, key, value) ==
    /\ Len(ops) < MaxCalls
    /\ LET r == store_value(fs, file, key, value) IN
       /\ fs' = r.fs
       /\ ret' = IF r.ok THEN "ok" ELSE "err"
    /\ shadow' = Insert(shadow, <<file, key>>, value)
    /\ ops' = Append(ops, <<"store_value", file, key>>)
    /\ UNCHANGED <<content, orig, prev, fs0>>
    /\ UNCHANGED concVars

GetValue(file, key) ==
    /\ Len(ops) < MaxCalls
    /\ LET r == get_value(fs, file, key) IN
       ret' = IF r.ok THEN r.value ELSE "NotFound"
    /\ ops' = Append(ops, <<"get_value", file, key>>)
    /\ UNCHANGED <<content, orig, prev, fs, fs0, shadow>>
    /\ UNCHANGED concVars

RemoveValue(file, key) ==
    /\ Len(ops) < MaxCalls
    /\ LET r == remove_value(fs, file, key) IN
       /\ fs' = r.fs
       /\ ret' = IF r.ok THEN "ok" ELSE "err"
    /\ shadow' = Remove(shadow, <<file, key>>)
    /\ ops' = Append(ops, <<"remove_value", file, key>>)
    /\ UNCHANGED <<content, orig, prev, fs0>>
    /\ UNCHANGED concVars

NextStore ==
    \E file \in Files, key \in Keys :
        \/ \E value \in Values : StoreValue(file, key, value)
        \/ GetValue(file, key)
        \/ RemoveValue(file, key)

SpecStore == InitStore /\ [][NextStore]_vars

(***************************************************************************)
(* Vocabulary of the properties.                                           *)
(***************************************************************************)
\* The number of lines that follow the end marker as committed content.
CommittedCount(d) == Len(Lines(d.committed_content))

\* The lines a decoration occupies in the text it was parsed from.
Extent(d) ==
    IF d.kind = "Block" THEN d.start_line..(d.end_line + CommittedCount(d))
    ELSE {d.line}

Anchor(d) == IF d.kind = "Block" THEN d.start_line ELSE d.line

HasBlockKind(decorations) ==
    \E i \in 1..Len(decorations) : decorations[i].kind = "Block"

AnchoredAt(decorations, n) ==
    \E i \in 1..Len(decorations) : Anchor(decorations[i]) = n

\* Every start marker opens a block, every end marker closes one, and no
\* line belongs to two decorations.
WellFormed(text) ==
    LET lines == Lines(text)
        decorations == Parser_parse(text)
    IN /\ \A n \in 1..Len(lines) :
            /\ START_PATTERN(lines[n]) =>
                   FirstAt(decorations, "Block", n, 1) > 0
            /\ END_PATTERN(lines[n]) =>
                   \E i \in 1..Len(decorations) :
                       /\ decorations[i].kind = "Block"
                       /\ decorations[i].end_line = n
       /\ \A i, j \in 1..Len(decorations) :
            i # j => Extent(decorations[i]) \cap Extent(decorations[j]) = {}

\* How often p occurs in s.
OccCount(s, p) ==
    Cardinality({i \in 1..Len(s) : StartsWith(Tail2(s, i - 1), p)})

\* The local texts of one decoration that differ from its committed text.
LocalTexts(d) ==
    CASE d.kind = "Inline" ->
           IF d.local_value # d.committed_value THEN {d.local_value} ELSE {}
      [] d.kind = "Block" ->
           LET ll == Lines(d.local_content)
               cl == Lines(d.committed_content)
           IN {ll[i] : i \in 1..Len(ll)} \ {cl[i] : i \in 1..Len(cl)}
      [] d.kind = "Partial" ->
           {d.replacements[j].local_value :
               j \in {k \in 1..Len(d.replacements) :
                        d.replacements[k].local_value
                            # d.replacements[k].committed_value}}

\* The local values of a text: the non-empty local texts of its decorations
\* that stand nowhere else in the text.
Secrets(text) ==
    LET decorations == Parser_parse(text) IN
    {v \in UNION {LocalTexts(decorations[i]) : i \in 1..Len(decorations)} :
        v # <<>> /\ OccCount(text, v) = 1}

\* The number of empty lines at the end of a text.
RECURSIVE TrailingBlank(_)
TrailingBlank(ls) ==
    IF ls # <<>> /\ ls[Len(ls)] = <<>>
    THEN 1 + TrailingBlank(SubSeq(ls, 1, Len(ls) - 1))
    ELSE 0

(***************************************************************************)
(* C1.  Round trip: for well-formed decorated content C and a store that   *)
(* is empty before the call, smudge(clean(C)) with the store left by that  *)
(* clean is exactly C.                                                     *)
(***************************************************************************)
C1_RoundTrip ==
    (ops = <<"clean", "smudge">> /\ fs0 = NewFs /\ WellFormed(orig))
        => content = orig

(***************************************************************************)
(* C2.  Secrecy of clean: the output of clean(C) contains none of the      *)
(* local values of the decorations parsed from C.                          *)
(***************************************************************************)
C2_CleanSecrecy ==
    ops = <<"clean">> => \A v \in Secrets(orig) : ~Contains(content, v)

(***************************************************************************)
(* C3.  Idempotence of clean: clean(clean(C)) = clean(C).                  *)
(***************************************************************************)
C3_CleanIdempotent ==
    ops = <<"clean", "clean">> => content = prev

(***************************************************************************)
(* C4.  Identity on undecorated input: when parsing C yields no            *)
(* decoration, clean(C) and smudge(C) return C unchanged, whatever the     *)
(* store holds.                                                            *)
(***************************************************************************)
C4_IdentityUndecorated ==
    (ops # <<>> /\ Parser_parse(prev) = <<>>) => content = prev

\* Undecorated, non-empty text ending in a newline went through smudge
\* against a store that holds values.
C4_Witness ==
    /\ ops = <<"smudge">>
    /\ fs0 = PreFs
    /\ Parser_parse(prev) = <<>>
    /\ Len(Lines(prev)) >= 2
    /\ EndsWithNl(prev)
    /\ content = prev

(***************************************************************************)
(* C5.  Block fail-open: a @whiteout-start line with no later              *)
(* @whiteout-end line gets no decoration from the block detector, and      *)
(* when the text holds no other decoration clean returns it unchanged.     *)
(***************************************************************************)
\* Line n of lines is a start marker that no later line closes.
Unterminated(lines, n) ==
    /\ START_PATTERN(lines[n])
    /\ \A m \in (n + 1)..Len(lines) : ~END_PATTERN(lines[m])

BracketsOnly(line) ==
    /\ CapturesIter(line, 1) # <<>>
    /\ ~DECORATOR_PATTERN(line)
    /\ ~Contains(line, <<MARK>>)

\* Line n comes out of the transform as it went in.  Lines keep their
\* numbers when no block is rendered; a block (or Simple decoration) hides
\* or restores whole lines of its own extent.
LineKept(before, after, n) ==
    ~HasBlockKind(Parser_parse(before)) =>
        /\ n <= Len(Lines(after))
        /\ Lines(after)[n] = Lines(before)[n]

C7_Escape ==
    ops # <<>> =>
        LET lines == Lines(prev) IN
        \A n \in 1..Len(lines) :
            Contains(lines[n], ESC_INLINE) =>
                /\ ~AnchoredAt(Parser_parse(prev), n)
                /\ LineKept(prev, content, n)

(***************************************************************************)
(* C8.  Trailing newline: in both directions the output ends with a        *)
(* newline iff the input does, and the number of trailing blank lines is   *)
(* unchanged.                                                              *)
(***************************************************************************)
C8_TrailingNewline ==
    ops # <<>> =>
        /\ EndsWithNl(content) = EndsWithNl(prev)
        /\ TrailingBlank(Lines(content)) = TrailingBlank(Lines(prev))

(***************************************************************************)
(* C9.  Smudge fallback: without a store entry smudge uses the local       *)
(* content parsed from the text, so smudge of never-cleaned C against an   *)
(* empty store returns C, and smudge(smudge(C)) = smudge(C).               *)
(***************************************************************************)
C9_SmudgeFallback ==
    /\ (ops = <<"smudge">> /\ fs0 = NewFs) => content = orig
    /\ (ops = <<"smudge", "smudge">> /\ fs0 = NewFs) => content = prev

(***************************************************************************)
(* C10.  Store as a map: every result of store_value, get_value and        *)
(* remove_value equals that of a map from (file, key) to value.            *)
(***************************************************************************)
\* What the reference map answers to the last call.
Expected ==
    LET call == ops[Len(ops)] IN
    IF call[1] = "get_value"
    THEN IF <<call[2], call[3]>> \in DOMAIN shadow
         THEN shadow[<<call[2], call[3]>>]
         ELSE "NotFound"
    ELSE "ok"

C10_StoreIsMap ==
    /\ ops # <<>> => ret = Expected
    /\ \A file \in Files, key \in Keys :
          LET g == get_value(fs, file, key) IN
          IF <<file, key>> \in DOMAIN shadow
          THEN g.ok /\ g.value = shadow[<<file, key>>]
          ELSE ~g.ok

(***************************************************************************)
(* SpecFilter: the clean command is run on the files of one project, with  *)
(* a file argument or as Git filter driver ("whiteout clean", the content  *)
(* on stdin), next to a reference map of what each file stashed.           *)
(***************************************************************************)
StdinPath == <<"stdin">>

\* The texts of the files: same keys, different local values.
FilterTexts ==
    {Text(<<L_simple, L_a>>, FALSE), Text(<<L_simple, L_b>>, FALSE),
     Text(<<L_inline>>, FALSE), Text(<<L_a>>, FALSE)}

\* The <<key, local value>> pairs clean stores for one decoration.
Stash(d) ==
    CASE d.kind = "Inline" -> {<<InlineKey(d.line), d.local_value>>}
      [] d.kind = "Block" -> {<<BlockKey(d.start_line), d.local_content>>}
      [] d.kind = "Partial" ->
           {<<PartialKey(d.line, j - 1), d.replacements[j].local_value>> :
               j \in 1..Len(d.replacements)}

StashOf(text) ==
    LET decorations == Parser_parse(text) IN
    UNION {Stash(decorations[i]) : i \in 1..Len(decorations)}

InitFilter ==
    /\ content = <<>>
    /\ orig = <<>>
    /\ prev = <<>>
    /\ ops = <<>>
    /\ fs = NewFs
    /\ fs0 = fs
    /\ ret = "none"
    /\ shadow = NoEntries
    /\ NoConc

\* Commands::Clean { file }: the path handed to Whiteout::clean is the file
\* argument, or "stdin" when the content comes from stdin.
CommandsClean(file, text, driver) ==
    /\ Len(ops) < MaxCalls
    /\ LET file_path == IF driver THEN StdinPath ELSE file
           r == clean(text, file_path, fs)
           stash == StashOf(text)
       IN /\ content' = r.out
          /\ fs' = r.fs
          /\ ret' = IF r.ok THEN "ok" ELSE "err"
          /\ shadow' =
                [x \in DOMAIN shadow \cup {<<file, p[1]>> : p \in stash} |->
                    IF \E p \in stash : x = <<file, p[1]>>
                    THEN [value |-> (CHOOSE p \in stash : x = <<file, p[1]>>)[2],
                          path |-> file_path]
                    ELSE shadow[x]]
    /\ prev' = text
    /\ ops' = Append(ops, <<IF driver THEN "filter" ELSE "file", file>>)
    /\ UNCHANGED <<orig, fs0>>
    /\ UNCHANGED concVars

NextFilter ==
    \E file \in Files, text \in FilterTexts, driver \in BOOLEAN :
        CommandsClean(file, text, driver)

SpecFilter == InitFilter /\ [][NextFilter]_vars

(***************************************************************************)
(* C11.  Store entries are scoped by file: what one file stashed is what   *)
(* the store returns for it, whatever other files were cleaned since,      *)
(* through the command with a file argument or as filter driver.           *)
(***************************************************************************)
C11_FileScoped ==
    \A x \in DOMAIN shadow :
        LET g == get_value(fs, shadow[x].path, x[2]) IN
        g.ok /\ g.value = shadow[x].value

(***************************************************************************)
(* SpecProc: two processes write the store file of one project at the     *)
(* same time, each with one of the write routines of the repository,      *)
(* while the file is read.  A step of a process is one file-system call.  *)
(*   "fs_write"     LocalStorage::store_value: load_data, create_dir_all, *)
(*                  fs::write on local.toml (open with truncate, write).  *)
(*   "temp_rename"  BatchedStorage::flush: load, fs::write on local.tmp,  *)
(*                  fs::rename to local.toml.                             *)
(*   "atomic"       AtomicFile::write: the content goes to               *)
(*                  .local.toml.tmp.<pid>, then fs::rename.               *)
(***************************************************************************)
Pids == {1, 2}
WriterKinds == {"fs_write", "temp_rename", "atomic"}

\* What process p stores: its own (file, key) pair.
FileOf(p) == IF p = 1 THEN <<"a.rs">> ELSE <<"b.rs">>
StorageKeyOf(p) == make_storage_key(FileOf(p), InlineKey(1))
ValueOf(p) == IF p = 1 THEN <<"v">> ELSE <<"w">>

\* The temporary path of a writer: AtomicFile::temp_path has the process id
\* in it, storage_path.with_extension("tmp") is the same for every process.
TempPath(kind, p) == IF kind = "atomic" THEN <<"tmp", p>> ELSE <<"local.tmp">>

Empty == [valid |-> FALSE, entries |-> NoEntries]

InitProc ==
    /\ content = <<>>
    /\ orig = <<>>
    /\ prev = <<>>
    /\ ops = <<>>
    /\ fs = InitFs
    /\ fs0 = fs
    /\ ret = "none"
    /\ shadow = NoEntries
    /\ \E kind \in WriterKinds :
          procs = [p \in Pids |->
                     IF kind = "atomic"
                     THEN [kind |-> kind, pc |-> "loaded",
                           data |-> Insert(NoEntries, StorageKeyOf(p), ValueOf(p))]
                     ELSE [kind |-> kind, pc |-> "start", data |-> NoEntries]]
    /\ tmp = <<>>
    /\ inner = <<>>

\* self.load_data()? and data.entries.insert(storage_key, entry)
Load(p) ==
    /\ procs[p].pc = "start"
    /\ LET l == load_data(fs) IN
       procs' = [procs EXCEPT ![p] =
                   IF l.ok
                   THEN [@ EXCEPT !.pc = "loaded",
                                  !.data = Insert(l.data, StorageKeyOf(p), ValueOf(p))]
                   ELSE [@ EXCEPT !.pc = "err"]]
    /\ UNCHANGED <<content, orig, prev, ops, fs, fs0, ret, shadow, tmp, inner>>

\* The open of the write: create_dir_all, then the file (local.toml itself
\* for fs::write in store_value, the temporary file otherwise) is created or
\* truncated to length 0.
OpenTruncate(p) ==
    /\ procs[p].pc = "loaded"
    /\ IF procs[p].kind = "fs_write"
       THEN /\ fs' = [dir |-> TRUE, exists |-> TRUE, valid |-> FALSE,
                      entries |-> NoEntries]
            /\ tmp' = tmp
       ELSE /\ tmp' = Insert(tmp, TempPath(procs[p].kind, p), Empty)
            /\ fs' = fs
    /\ procs' = [procs EXCEPT ![p].pc = "writing"]
    /\ UNCHANGED <<content, orig, prev, ops, fs0, ret, shadow, inner>>

\* write_all on the open file.  The file written is the one that was
\* opened, also when a rename has moved it to local.toml since.
WriteAll(p) ==
    /\ procs[p].pc = "writing"
    /\ LET path == TempPath(procs[p].kind, p)
           full == [valid |-> TRUE, entries |-> procs[p].data]
       IN IF procs[p].kind # "fs_write" /\ path \in DOMAIN tmp
          THEN /\ tmp' = Insert(tmp, path, full)
               /\ fs' = fs
          ELSE /\ fs' = [fs EXCEPT !.valid = TRUE, !.entries = procs[p].data]
               /\ tmp' = tmp
    /\ procs' = [procs EXCEPT ![p].pc =
                    IF procs[p].kind = "fs_write" THEN "done" ELSE "written"]
    /\ UNCHANGED <<content, orig, prev, ops, fs0, ret, shadow, inner>>

\* fs::rename(temp_path, storage_path); Err when the temporary file is gone.
Rename(p) ==
    /\ procs[p].pc = "written"
    /\ LET path == TempPath(procs[p].kind, p) IN
       IF path \in DOMAIN tmp
       THEN /\ fs' = [dir |-> TRUE, exists |-> TRUE,
                      valid |-> tmp[path].valid, entries |-> tmp[path].entries]
            /\ tmp' = Remove(tmp, path)
            /\ procs' = [procs EXCEPT ![p].pc = "done"]
       ELSE /\ procs' = [procs EXCEPT ![p].pc = "err"]
            /\ UNCHANGED <<fs, tmp>>
    /\ UNCHANGED <<content, orig, prev, ops, fs0, ret, shadow, inner>>

\* The process dies between two calls of its write.
Crash(p) ==
    /\ procs[p].pc \in {"loaded", "writing", "written"}
    /\ procs' = [procs EXCEPT ![p].pc = "crashed"]
    /\ UNCHANGED <<content, orig, prev, ops, fs, fs0, ret, shadow, tmp, inner>>

\* A reader of the store file: load_data in another process.
Read ==
    /\ ret' = IF load_data(fs).ok THEN "ok" ELSE "Failed to parse storage file"
    /\ UNCHANGED <<content, orig, prev, ops, fs, fs0, shadow, procs, tmp, inner>>

NextProc ==
    \/ \E p \in Pids :
          \/ Load(p)
          \/ OpenTruncate(p)
          \/ WriteAll(p)
          \/ Rename(p)
          \/ Crash(p)
    \/ Read

SpecProc == InitProc /\ [][NextProc]_vars

(***************************************************************************)
(* C12.  Atomic store write: at every point of a store write, a crash     *)
(* between two of its steps included, local.toml holds a complete content *)
(* and a reader never finds it empty or partially written.                *)
(***************************************************************************)
C12_AtomicWrite ==
    /\ fs.exists => fs.valid
    /\ ret # "Failed to parse storage file"

(***************************************************************************)
(* C13.  No lost update: when two processes have both returned from       *)
(* store_value for two different (file, key) pairs, the store holds both  *)
(* entries, in every interleaving of their load and write steps.          *)
(***************************************************************************)
C13_NoLostUpdate ==
    (\A p \in Pids : procs[p].kind = "fs_write" /\ procs[p].pc = "done") =>
        \A p \in Pids :
            /\ StorageKeyOf(p) \in DOMAIN fs.entries
            /\ fs.entries[StorageKeyOf(p)] = ValueOf(p)

(***************************************************************************)
(* SpecBatch: one process calls store_value, get_value, remove_value and   *)
(* flush on one BatchedStorage, then drops it, next to a reference map.    *)
(* Time is a choice: whether FLUSH_INTERVAL has elapsed at a store_value,  *)
(* and a Tick after which the cached data is no longer valid.              *)
(***************************************************************************)
BATCH_SIZE == 50

BatchKeys == {InlineKey(1)}

NewInner ==
    [pending_writes |-> NoEntries,
     pending_deletes |-> <<>>,
     cached_data |-> [some |-> FALSE, data |-> NoEntries],
     cache_valid |-> FALSE,
     dropped |-> FALSE]

InSeq(q, x) == \E i \in 1..Len(q) : q[i] = x

\* flush, "Apply pending deletes": the keys are removed in queue order.
RECURSIVE ApplyDeletes(_, _, _)
ApplyDeletes(entries, q, i) ==
    IF i > Len(q) THEN entries
    ELSE ApplyDeletes(Remove(entries, q[i]), q, i + 1)

\* flush, "Apply pending writes": every pending entry is inserted.
ApplyWrites(entries, w) ==
    [k \in DOMAIN entries \cup DOMAIN w |->
        IF k \in DOMAIN w THEN w[k] ELSE entries[k]]

\* BatchedStorage::flush: the result, the inner state and the disk after it.
\* write_ok tells whether fs::write of the temporary file succeeds (it fails
\* on a full or read-only disk).  The pending maps are drained before the
\* write, after the load.
flush(inn, f, write_ok) ==
    IF inn.pending_writes = NoEntries /\ inn.pending_deletes = <<>>
    THEN [ok |-> TRUE, inner |-> inn, fs |-> f]
    ELSE LET l == load_data(f) IN
         IF ~l.ok THEN [ok |-> FALSE, inner |-> inn, fs |-> f]
         ELSE LET data == ApplyDeletes(ApplyWrites(l.data, inn.pending_writes),
                                       inn.pending_deletes, 1)
              IN IF ~write_ok
                 THEN [ok |-> FALSE,
                       inner |-> [inn EXCEPT !.pending_writes = NoEntries,
                                             !.pending_deletes = <<>>],
                       fs |-> [f EXCEPT !.dir = TRUE]]
                 ELSE
                 [ok |-> TRUE,
                  inner |-> [inn EXCEPT !.pending_writes = NoEntries,
                                        !.pending_deletes = <<>>,
                                        !.cached_data = [some |-> TRUE,
                                                         data |-> data],
                                        !.cache_valid = TRUE],
                  fs |-> [dir |-> TRUE, exists |-> TRUE, valid |-> TRUE,
                          entries |-> data]]

\* BatchedStorage::load_data_cached: the data and the inner state after it.
load_data_cached(inn, f) ==
    IF inn.cached_data.some /\ inn.cache_valid
    THEN [ok |-> TRUE, data |-> inn.cached_data.data, inner |-> inn]
    ELSE LET l == load_data(f) IN
         IF ~l.ok THEN [ok |-> FALSE, data |-> NoEntries, inner |-> inn]
         ELSE [ok |-> TRUE, data |-> l.data,
               inner |-> [inn EXCEPT !.cached_data = [some |-> TRUE,
                                                      data |-> l.data],
                                     !.cache_valid = TRUE]]

InitBatch ==
    /\ content = <<>>
    /\ orig = <<>>
    /\ prev = <<>>
    /\ ops = <<>>
    /\ fs \in {NewFs, InitFs, CorruptFs}
    /\ fs0 = fs
    /\ ret = "none"
    /\ shadow = NoEntries
    /\ procs = <<>>
    /\ tmp = <<>>
    /\ inner = NewInner

\* BatchedStorage::store_value; elapsed: last_flush.elapsed() >= FLUSH_INTERVAL.
BatchedStoreValue(file, key, value, elapsed, write_ok) ==
    /\ ~inner.dropped
    /\ Len(ops) < MaxCalls
    /\ LET k == make_storage_key(file, key)
           inn == [inner EXCEPT !.pending_writes = Insert(@, k, value)]
       IN IF Cardinality(DOMAIN inn.pending_writes) >= BATCH_SIZE \/ elapsed
          THEN LET r == flush(inn, fs, write_ok) IN
               /\ inner' = r.inner
               /\ fs' = r.fs
               /\ ret' = IF r.ok THEN "ok" ELSE "err"
          ELSE /\ inner' = inn
               /\ fs' = fs
               /\ ret' = "ok"
    /\ shadow' = Insert(shadow, <<file, key>>, value)
    /\ ops' = Append(ops, <<"store_value", file, key>>)
    /\ UNCHANGED <<content, orig, prev, fs0, procs, tmp>>

\* BatchedStorage::get_value
BatchedGetValue(file, key) ==
    /\ ~inner.dropped
    /\ Len(ops) < MaxCalls
    /\ LET k == make_storage_key(file, key) IN
       IF k \in DOMAIN inner.pending_writes
       THEN /\ ret' = [ok |-> TRUE, value |-> inner.pending_writes[k]]
            /\ inner' = inner
       ELSE IF InSeq(inner.pending_deletes, k)
       THEN /\ ret' = [ok |-> FALSE, value |-> <<>>]
            /\ inner' = inner
       ELSE LET l == load_data_cached(inner, fs) IN
            /\ inner' = l.inner
            /\ ret' = IF l.ok /\ k \in DOMAIN l.data
                      THEN [ok |-> TRUE, value |-> l.data[k]]
                      ELSE [ok |-> FALSE, value |-> <<>>]
    /\ ops' = Append(ops, <<"get_value", file, key>>)
    /\ UNCHANGED <<content, orig, prev, fs, fs0, shadow, procs, tmp>>

\* BatchedStorage::remove_value
BatchedRemoveValue(file, key, write_ok) ==
    /\ ~inner.dropped
    /\ Len(ops) < MaxCalls
    /\ LET k == make_storage_key(file, key)
           inn == [inner EXCEPT !.pending_writes = Remove(@, k),
                                !.pending_deletes = Append(@, k)]
       IN IF Len(inn.pending_deletes) >= BATCH_SIZE
          THEN LET r == flush(inn, fs, write_ok) IN
               /\ inner' = r.inner
               /\ fs' = r.fs
               /\ ret' = IF r.ok THEN "ok" ELSE "err"
          ELSE /\ inner' = inn
               /\ fs' = fs
               /\ ret' = "ok"
    /\ shadow' = Remove(shadow, <<file, key>>)
    /\ ops' = Append(ops, <<"remove_value", file, key>>)
    /\ UNCHANGED <<content, orig, prev, fs0, procs, tmp>>

\* An explicit BatchedStorage::flush with something pending.
BatchedFlush(write_ok) ==
    /\ ~inner.dropped
    /\ Len(ops) < MaxCalls
    /\ inner.pending_writes # NoEntries \/ inner.pending_deletes # <<>>
    /\ LET r == flush(inner, fs, write_ok) IN
       /\ inner' = r.inner
       /\ fs' = r.fs
       /\ ret' = IF r.ok THEN "ok" ELSE "err"
    /\ ops' = Append(ops, <<"flush">>)
    /\ UNCHANGED <<content, orig, prev, fs0, shadow, procs, tmp>>

\* CACHE_DURATION passes.
Tick ==
    /\ ~inner.dropped
    /\ inner.cache_valid
    /\ inner' = [inner EXCEPT !.cache_valid = FALSE]
    /\ UNCHANGED <<content, orig, prev, ops, fs, fs0, ret, shadow, procs, tmp>>

\* Drop for BatchedStorage: "let _ = self.flush()", then the process exits.
BatchedDrop(write_ok) ==
    /\ ~inner.dropped
    /\ LET r == flush(inner, fs, write_ok) IN
       /\ inner' = [r.inner EXCEPT !.dropped = TRUE]
       /\ fs' = r.fs
    /\ UNCHANGED <<content, orig, prev, ops, fs0, ret, shadow, procs, tmp>>

NextBatch ==
    \/ \E file \in Files, key \in BatchKeys, write_ok \in BOOLEAN :
          \/ \E value \in Values, elapsed \in BOOLEAN :
                BatchedStoreValue(file, key, value, elapsed, write_ok)
          \/ BatchedGetValue(file, key)
          \/ BatchedRemoveValue(file, key, write_ok)
    \/ \E write_ok \in BOOLEAN :
          \/ BatchedFlush(write_ok)
          \/ BatchedDrop(write_ok)
    \/ Tick

SpecBatch == InitBatch /\ [][NextBatch]_vars

(***************************************************************************)
(* C14.  Read-your-writes in BatchedStorage: a get_value(f, k) that comes  *)
(* after store_value(f, k, v), with no store_value or remove_value of      *)
(* (f, k) in between, returns v, whether or not a flush happened.          *)
(***************************************************************************)
C14_ReadYourWrites ==
    (ops # <<>> /\ ops[Len(ops)][1] = "get_value") =>
        LET x == <<ops[Len(ops)][2], ops[Len(ops)][3]>> IN
        x \in DOMAIN shadow => ret.ok /\ ret.value = shadow[x]

(***************************************************************************)
(* C15.  Durability before exit: once the BatchedStorage is dropped, the   *)
(* store file holds, for every key, the value of its latest store_value.   *)
(***************************************************************************)
C15_DurableOnDrop ==
    inner.dropped =>
        \A x \in DOMAIN shadow :
            LET g == get_value(fs, x[1], x[2]) IN
            g.ok /\ g.value = shadow[x]

(***************************************************************************)
(* SpecFail: clean and smudge run against a store whose local.toml cannot  *)
(* be read or parsed.                                                      *)
(***************************************************************************)
InitFail ==
    /\ content \in Contents
    /\ orig = content
    /\ prev = content
    /\ ops = <<>>
    /\ fs = CorruptFs
    /\ fs0 = fs
    /\ ret = "none"
    /\ shadow = NoEntries
    /\ NoConc

SpecFail == InitFail /\ [][Next]_vars

(***************************************************************************)
(* C16.  Store failures are fatal: when the store file cannot be read or   *)
(* parsed, a clean or smudge of decorated text (one that goes to the       *)
(* store) returns an error and no transformed output.                      *)
(***************************************************************************)
C16_StoreFailureFatal ==
    (ops # <<>> /\ ~load_data(fs0).ok /\ Parser_parse(prev) # <<>>) =>
        ret = "err" /\ content = prev

(***************************************************************************)
(* C17.  Block clean keeps the markers: for a terminated block, clean      *)
(* emits the start-marker line, the end-marker line and then the           *)
(* committed lines, none of the local lines, and parsing the output again  *)
(* finds a Block at the same start line.                                   *)
(***************************************************************************)
\* The text is decorated by start/end blocks only.
OnlyBlocks(text) ==
    /\ BlockParser_parse(text) # <<>>
    /\ Parser_parse(text) = BlockParser_parse(text)

C17_BlockCleanKeepsMarkers ==
    (ops = <<"clean">> /\ OnlyBlocks(orig)) =>
        LET lines == Lines(orig)
            d == BlockParser_parse(orig)[1]
        IN /\ IsPrefix(SubSeq(lines, 1, d.start_line - 1)
                          \o <<lines[d.start_line], lines[d.end_line]>>
                          \o Lines(d.committed_content),
                       Lines(content))
           /\ FirstAt(BlockParser_parse(content), "Block", d.start_line, 1) > 0

(***************************************************************************)
(* C19.  Inline clean stays self-describing: clean rewrites an Inline      *)
(* line to "<committed> <delim> @whiteout: <committed>" with the comment   *)
(* delimiter of the input line, so that parsing the output yields an       *)
(* Inline decoration at the same line with the same committed value.       *)
(***************************************************************************)
\* The text is decorated by inline decorations only.
OnlyInlines(text) ==
    /\ InlineParser_parse(text) # <<>>
    /\ Parser_parse(text) = InlineParser_parse(text)

C19_InlineCleanSelfDescribing ==
    (ops = <<"clean">> /\ OnlyInlines(orig)) =>
        LET lines == Lines(orig)
            decorations == InlineParser_parse(orig)
            cleaned == InlineParser_parse(content)
        IN \A i \in 1..Len(decorations) :
              LET d == decorations[i]
                  line == lines[d.line]
                  delim == InlineDelimOf(Tail2(line, InlineSplit(line, 1)))
                  j == FirstAt(cleaned, "Inline", d.line, 1)
              IN /\ d.line <= Len(Lines(content))
                 /\ Lines(content)[d.line] =
                        d.committed_value \o <<" ", delim, " ", MARK, ":", " ">>
                            \o d.committed_value
                 /\ j > 0
                 /\ cleaned[j].committed_value = d.committed_value

(***************************************************************************)
(* C18.  Block smudge: for a start/end block, smudge emits the             *)
(* start-marker line, the local content (the store's value under           *)
(* block_<start_line> when present, else the content parsed from the       *)
(* text), the end-marker line, and skips exactly the lines of              *)
(* committed_content that follow the end marker.                           *)
(***************************************************************************)
\* The local content smudge renders for block d against store f.
LocalFor(f, d) ==
    LET g == get_value(f, FilePath, BlockKey(d.start_line)) IN
    IF g.ok THEN g.value ELSE d.local_content

\* What smudge makes of the text up to the end marker of its first block.
SmudgedHead(text, f) ==
    LET lines == Lines(text)
        d == BlockParser_parse(text)[1]
    IN SubSeq(lines, 1, d.start_line - 1)
           \o <<lines[d.start_line]>>
           \o Lines(LocalFor(f, d))
           \o <<lines[d.end_line]>>

L_both ==
    <<"[[", "a", "||", "b", "]]", " ", "//", " ", MARK, ":", " ", "b", " ",
      "//", " ", MARK, "-partial">>

PrecLineSet ==
    {L_a, L_blank, L_start, L_end, L_simple, L_inline, L_partial, L_both}

PrecContents ==
    {Text(ls, nl) : ls \in UNION {[1..n -> PrecLineSet] : n \in 0..MaxLines},
                    nl \in BOOLEAN}

InitPrec ==
    /\ content \in PrecContents
    /\ orig = content
    /\ prev = content
    /\ ops = <<>>
    /\ fs \in {NewFs, PreFs}
    /\ fs0 = fs
    /\ ret = "none"
    /\ shadow = NoEntries
    /\ NoConc

SpecPrec == InitPrec /\ [][Next]_vars

(***************************************************************************)
(* C20.  Precedence Block > Inline > Partial: the output is the one that   *)
(* the decorations of highest precedence give alone.  A Partial on a line  *)
(* that carries an Inline, and an Inline or Partial on a line of a block   *)
(* (start line to skip_until), change nothing, and without a block every   *)
(* input line gets exactly one output line.                                *)
(***************************************************************************)
\* The extents of the blocks do not overlap, so every block is rendered and
\* skip_until is the end of its extent.
BlocksDisjoint(decorations) ==
    \A i, j \in 1..Len(decorations) :
        (i # j /\ decorations[i].kind = "Block" /\ decorations[j].kind = "Block")
            => Extent(decorations[i]) \cap Extent(decorations[j]) = {}

\* d is anchored where a decoration of higher precedence decides.
Outranked(decorations, d) ==
    /\ d.kind # "Block"
    /\ \/ \E j \in 1..Len(decorations) :
             /\ decorations[j].kind = "Block"
             /\ d.line \in Extent(decorations[j])
       \/ /\ d.kind = "Partial"
          /\ FirstAt(decorations, "Inline", d.line, 1) > 0

Top(decorations) ==
    SelectSeq(decorations, LAMBDA d : ~Outranked(decorations, d))

\* The decorations the last transform rendered.
Rendered ==
    LET decorations == Parser_parse(prev) IN
    IF ops[Len(ops)] = "clean" THEN decorations
    ELSE [i \in 1..Len(decorations) |-> Restore(fs, FilePath, decorations[i])]

C20_Precedence ==
    (ops # <<>> /\ ret = "ok" /\ Parser_parse(prev) # <<>>
        /\ BlocksDisjoint(Parser_parse(prev))) =>
        LET use_local == ops[Len(ops)] = "smudge" IN
        /\ content = Parser_apply_decorations(prev, Top(Rendered), use_local)
        /\ apply_decorations(prev, Rendered, use_local)
               = apply_decorations(prev, Top(Rendered), use_local)
        /\ ~HasBlockKind(Rendered) =>
               OccCount(content, <<NL>>) = Len(Lines(prev)) - 1

\* A Partial line and a line with an Inline and a Partial decoration were
\* cleaned: the first is rendered by its Partial, the second by its Inline
\* alone (the committed value, which here is "b // @whiteout-partial").
C20_Witness ==
    /\ ops = <<"clean">>
    /\ prev = Text(<<L_partial, L_both>>, FALSE)
    /\ Len(Top(Parser_parse(prev))) < Len(Parser_parse(prev))
    /\ LET committed == <<"b", " ", "//", " ", MARK, "-partial">> IN
       content = Text(<<committed, committed>>, FALSE)

(***************************************************************************)
(* C21.  Store keys are stable across clean and smudge: every key under    *)
(* which clean(C) stores a local value (inline_<line>, block_<start_line>, *)
(* partial_<line>_<index>) is a key that smudge computes when it parses    *)
(* clean(C), also for a decoration that comes after removed local lines.   *)
(***************************************************************************)
\* The keys clean stores for a text, which are the keys smudge looks up.
StashKeys(text) == {p[1] : p \in StashOf(text)}

C21_KeysStable ==
    (ops = <<"clean">> /\ ret = "ok") =>
        StashKeys(orig) \subseteq StashKeys(content)

(***************************************************************************)
(* SpecStash: clean and smudge on texts whose committed text can itself    *)
(* carry a marker.                                                         *)
(***************************************************************************)
\* An Inline line whose committed value is again an Inline line.
L_inline_twice ==
    <<"a", " ", "//", " ", MARK, ":", " ", "b", " ", "//", " ", MARK, ":",
      " ", "b">>

StashLineSet ==
    {L_a, L_blank, L_start, L_end, L_simple, L_inline, L_inline_twice,
     L_partial}

StashContents ==
    {Text(ls, nl) : ls \in UNION {[1..n -> StashLineSet] : n \in 0..MaxLines},
                    nl \in BOOLEAN}

InitStash ==
    /\ content \in StashContents
    /\ orig = content
    /\ prev = content
    /\ ops = <<>>
    /\ fs \in {NewFs, PreFs}
    /\ fs0 = fs
    /\ ret = "none"
    /\ shadow = NoEntries
    /\ NoConc

SpecStash == InitStash /\ [][Next]_vars

(***************************************************************************)
(* C22.  Cleaning already-clean text does not destroy the stash: after     *)
(* clean(C) and then clean(clean(C)) on the same store, get_value returns  *)
(* for every key that the first clean stored the value it stored.          *)
(***************************************************************************)
C22_StashSurvivesReclean ==
    (ops = <<"clean", "clean">> /\ ret = "ok") =>
        LET first == clean(orig, FilePath, fs0).fs IN
        \A k \in StashKeys(orig) :
            get_value(fs, FilePath, k) = get_value(first, FilePath, k)

(***************************************************************************)
(* C23.  Checkout then re-clean shows no change: clean(smudge(clean(C)))   *)
(* equals clean(C), with the store as the first clean left it.             *)
(***************************************************************************)
C23_CheckoutRecleanNoChange ==
    (ops = <<"clean", "smudge">> /\ fs0 = NewFs) =>
        LET again == clean(content, FilePath, fs) IN
        again.ok /\ again.out = prev

(***************************************************************************)
(* C24.  No collateral line loss: clean drops only the lines that are      *)
(* local content of a decoration, and smudge (with nothing stored) only    *)
(* the lines that are committed content of a block; every other input      *)
(* line has exactly one output line, in input order, and that line is the  *)
(* input line itself unless an Inline or Partial decoration rewrites it.   *)
(***************************************************************************)
\* The lines between the markers of a Block-kind decoration: for a
\* start/end block start_line+1 .. end_line-1, for a Simple decoration the
\* one line after the marker (its end_line).
LocalLinesOf(lines, d) ==
    IF d.kind # "Block" THEN {}
    ELSE IF SimpleMarker(lines[d.start_line]) THEN {d.end_line}
    ELSE (d.start_line + 1)..(d.end_line - 1)

\* The lines that follow the end marker as committed content.
CommittedLinesOf(d) ==
    IF d.kind # "Block" THEN {}
    ELSE (d.end_line + 1)..(d.end_line + CommittedCount(d))

\* The indices of 1..n that are not in drop, in increasing order.
RECURSIVE KeptFrom(_, _, _)
KeptFrom(i, n, drop) ==
    IF i > n THEN <<>>
    ELSE (IF i \in drop THEN <<>> ELSE <<i>>) \o KeptFrom(i + 1, n, drop)

\* The lines the last transform pushed, before the join.
Pushed ==
    ParserLoop(Lines(prev), Rendered, ops[Len(ops)] = "smudge", 1, 0)

C24_NoCollateralLoss ==
    (Len(ops) = 1 /\ ret = "ok" /\ Parser_parse(prev) # <<>>
        /\ (ops = <<"smudge">> => fs0 = NewFs)) =>
        LET lines == Lines(prev)
            decorations == Parser_parse(prev)
            drop == UNION {IF ops = <<"clean">>
                           THEN LocalLinesOf(lines, decorations[i])
                           ELSE CommittedLinesOf(decorations[i]) :
                           i \in 1..Len(decorations)}
            kept == KeptFrom(1, Len(lines), drop)
        IN /\ content = Join(Pushed, <<NL>>)
           /\ Len(Pushed) = Len(kept)
           /\ \A j \in 1..Len(kept) :
                 (/\ j <= Len(Pushed)
                  /\ FirstAt(decorations, "Inline", kept[j], 1) = 0
                  /\ FirstAt(decorations, "Partial", kept[j], 1) = 0)
                     => Pushed[j] = lines[kept[j]]

(***************************************************************************)
(* SpecParse: the detectors are run on a text of marker lines, plain lines *)
(* and blank lines.                                                        *)
(***************************************************************************)
MaxParseLines == 4

ParseLineSet == {L_a, L_blank, L_start, L_end}

ParseContents ==
    {Text(ls, nl) :
        ls \in UNION {[1..n -> ParseLineSet] : n \in 0..MaxParseLines},
        nl \in BOOLEAN}

InitParse ==
    /\ content \in ParseContents
    /\ orig = content
    /\ prev = content
    /\ ops = <<>>
    /\ fs = NewFs
    /\ fs0 = fs
    /\ ret = <<>>
    /\ shadow = NoEntries
    /\ NoConc

\* BlockParser::parse(content)
BlockParse ==
    /\ ops = <<>>
    /\ ret' = BlockParser_parse(content)
    /\ ops' = <<"BlockParser::parse">>
    /\ UNCHANGED <<content, orig, prev, fs, fs0, shadow>>
    /\ UNCHANGED concVars

NextParse == BlockParse

SpecParse == InitParse /\ [][NextParse]_vars

(***************************************************************************)
(* C25.  Block extents: for every block of BlockParser, start_line is a    *)
(* start-marker line, end_line the end-marker line (start_line + number of *)
(* local lines + 1), local_content the lines strictly between them,        *)
(* committed_content the run of lines right after the end marker up to the *)
(* first blank line, start marker or end of input; blocks do not overlap.  *)
(***************************************************************************)
\* The lines from index i on, up to the first blank line or start marker.
RECURSIVE RunFrom(_, _)
RunFrom(lines, i) ==
    IF i > Len(lines) \/ Trim(lines[i]) = <<>> \/ START_PATTERN(lines[i])
    THEN <<>>
    ELSE <<lines[i]>> \o RunFrom(lines, i + 1)

C25_BlockExtents ==
    ops = <<"BlockParser::parse">> =>
        LET lines == Lines(content) IN
        /\ \A i \in 1..Len(ret) :
              LET d == ret[i] IN
              /\ d.start_line \in 1..Len(lines)
              /\ d.end_line \in (d.start_line + 1)..Len(lines)
              /\ START_PATTERN(lines[d.start_line])
              /\ END_PATTERN(lines[d.end_line])
              /\ d.local_content =
                     Join(SubSeq(lines, d.start_line + 1, d.end_line - 1),
                          <<NL>>)
              /\ d.committed_content =
                     Join(RunFrom(lines, d.end_line + 1), <<NL>>)
        /\ \A i, j \in 1..Len(ret) :
              i < j => ret[i].end_line + CommittedCount(ret[i])
                           < ret[j].start_line

(***************************************************************************)
(* parser/parallel.rs: ParallelParser::parse.  The lines are cut into      *)
(* chunks of chunk_size lines; every chunk is scanned for Inline and       *)
(* Partial decorations on its own, and the results are collected in chunk  *)
(* order (an indexed rayon iterator), whatever order the chunks finish in. *)
(***************************************************************************)
MIN_CHUNK == 100

\* DECORATION_PATTERNS.is_match(s)
DECORATION_PATTERNS(s) ==
    \/ Contains(s, <<MARK>>)
    \/ Contains(s, <<"[[">>)
    \/ Contains(s, <<"||">>)
    \/ Contains(s, <<"]]">>)

\* parse_inline_single
parse_inline_single(line, line_num) ==
    LET k == InlineSplit(line, 1) IN
    IF k = 0 THEN <<>>
    ELSE <<Inline(line_num,
                  Trim(SubSeq(line, 1, k)),
                  Trim(InlineAfterColon(Tail2(line, k))))>>

\* parse_partial_single
parse_partial_single(line, line_num) ==
    LET replacements == CapturesIter(line, 1) IN
    IF replacements = <<>> THEN <<>>
    ELSE <<Partial(line_num, replacements)>>

\* The body of the loop over the lines of one chunk.
ChunkLine(line, line_num) ==
    IF ~DECORATION_PATTERNS(line) THEN <<>>
    ELSE (IF Contains(line, <<MARK, ":">>) /\ ~Contains(line, ESC_INLINE)
          THEN parse_inline_single(line, line_num)
          ELSE <<>>)
         \o
         (IF Contains(line, <<"[[">>) /\ Contains(line, <<"||">>)
             /\ Contains(line, <<"]]">>)
          THEN parse_partial_single(line, line_num)
          ELSE <<>>)

\* The closure handed to flat_map, for one chunk: the decorations of the
\* lines idx = lo .. hi - 1 of the chunk, in line order (the loop is
\* unfolded by halves).
RECURSIVE ChunkScan(_, _, _, _)
ChunkScan(chunk, base_line, lo, hi) ==
    IF lo >= hi THEN <<>>
    ELSE IF hi = lo + 1 THEN ChunkLine(chunk[lo + 1], base_line + lo + 1)
    ELSE LET mid == (lo + hi) \div 2 IN
         ChunkScan(chunk, base_line, lo, mid)
             \o ChunkScan(chunk, base_line, mid, hi)

\* par_chunks(chunk_size).enumerate().flat_map(..).collect()
RECURSIVE ParChunks(_, _, _)
ParChunks(lines, chunk_size, chunk_idx) ==
    LET base_line == chunk_idx * chunk_size IN
    IF base_line >= Len(lines) THEN <<>>
    ELSE LET last == IF base_line + chunk_size < Len(lines)
                     THEN base_line + chunk_size ELSE Len(lines)
         IN ChunkScan(SubSeq(lines, base_line + 1, last), base_line, 0,
                      last - base_line)
            \o ParChunks(lines, chunk_size, chunk_idx + 1)

\* parse_blocks_optimized
parse_blocks_optimized(text) ==
    IF ~(Contains(text, <<MARK, "-start">>) \/ Contains(text, <<MARK, "-end">>))
    THEN <<>>
    ELSE BlockParser_parse(text)

\* ParallelParser::parse with rayon::current_num_threads() = num_threads.
ParallelParser_parse(text, num_threads) ==
    IF ~DECORATION_PATTERNS(text) THEN <<>>
    ELSE LET lines == Lines(text)
             q == Len(lines) \div num_threads
             chunk_size == IF q > MIN_CHUNK THEN q ELSE MIN_CHUNK
         IN SimpleParser_parse(text)
            \o ParChunks(lines, chunk_size, 0)
            \o parse_blocks_optimized(text)

(***************************************************************************)
(* SpecPar: ParallelParser::parse is run, with one or two threads, on a    *)
(* text of plain lines, Inline and Partial lines, bracket lines without    *)
(* the opt-in comment and escaped lines.                                   *)
(***************************************************************************)
Threads == {1, 2}

ParLineSet == {L_a, L_inline, L_partial, L_brackets, L_escaped}

ParContents ==
    {Join(ls, <<NL>>) :
        ls \in UNION {[1..n -> ParLineSet] : n \in 0..MaxLines}}

InitPar ==
    /\ content \in ParContents
    /\ orig = content
    /\ prev = content
    /\ ops = <<>>
    /\ fs = NewFs
    /\ fs0 = fs
    /\ ret = <<>>
    /\ shadow = NoEntries
    /\ NoConc

ParallelParse(num_threads) ==
    /\ ops = <<>>
    /\ ret' = ParallelParser_parse(content, num_threads)
    /\ ops' = <<"ParallelParser::parse", num_threads>>
    /\ UNCHANGED <<content, orig, prev, fs, fs0, shadow>>
    /\ UNCHANGED concVars

NextPar == \E num_threads \in Threads : ParallelParse(num_threads)

SpecPar == InitPar /\ [][NextPar]_vars

(***************************************************************************)
(* C26.  Parallel scan equals sequential scan: ParallelParser::parse       *)
(* reports the Inline and Partial decorations of the sequential Inline and *)
(* Partial detectors, with the same line numbers and values, for every     *)
(* thread count, and the Block decorations of the sequential detectors.    *)
(***************************************************************************)
OfKind(decorations, kind) ==
    SelectSeq(decorations, LAMBDA d : d.kind = kind)

C26_ParallelEqualsSequential ==
    (ops # <<>> /\ ops[1] = "ParallelParser::parse") =>
        /\ OfKind(ret, "Inline") = InlineParser_parse(content)
        /\ OfKind(ret, "Partial") = PartialParser_parse(content)
        /\ OfKind(ret, "Block") =
               SimpleParser_parse(content) \o BlockParser_parse(content)

(***************************************************************************)
(* C27.  flush applies the pending operations in issue order per key:      *)
(* after a flush that returned Ok, the store file holds for every key the  *)
(* effect of the last operation pending on it: the value of a store_value  *)
(* (a key in pending_writes, also when a remove_value was issued before    *)
(* it), nothing for a remove_value that no store_value followed.           *)
(***************************************************************************)
C27_FlushInIssueOrder ==
    [][(ops' = Append(ops, <<"flush">>) /\ ret' = "ok") =>
          \A file \in Files, key \in BatchKeys :
              LET k == make_storage_key(file, key) IN
              /\ k \in DOMAIN inner.pending_writes =>
                     /\ k \in DOMAIN fs'.entries
                     /\ fs'.entries[k] = inner.pending_writes[k]
              /\ (k \notin DOMAIN inner.pending_writes
                      /\ InSeq(inner.pending_deletes, k)) =>
                     k \notin DOMAIN fs'.entries]_vars

(***************************************************************************)
(* C28.  A failed flush loses nothing: when flush returns an error, called *)
(* by itself or from store_value, every pending write and pending delete   *)
(* is still buffered afterwards.                                           *)
(***************************************************************************)
C28_FailedFlushKeepsPending ==
    [][(ops' # ops /\ ops'[Len(ops')][1] \in {"store_value", "flush"}
           /\ ret' = "err") =>
          LET call == ops'[Len(ops')] IN
          /\ inner'.pending_deletes = inner.pending_deletes
          /\ inner'.pending_writes =
                 IF call[1] = "store_value"
                 THEN Insert(inner.pending_writes,
                             make_storage_key(call[2], call[3]),
                             shadow'[<<call[2], call[3]>>])
                 ELSE inner.pending_writes]_vars

(***************************************************************************)
(* storage/atomic.rs: AtomicFile::read.  An error is an anyhow::Error: the *)
(* io::Error of the failed call (its source) under the context message    *)
(* that try_read attaches.  to_string() of such an error is its outermost  *)
(* message, the context; the source is not part of it.                     *)
(***************************************************************************)
MAX_RETRIES == 3

TEMPORARILY_UNAVAILABLE == "temporarily unavailable"
LOCKED == "locked"

\* The messages of the io::Error a call can fail with: EAGAIN, a lock
\* violation, EIO.
Causes ==
    {<<"Resource", " ", TEMPORARILY_UNAVAILABLE, " ", "(os error 11)">>,
     <<"another process has", " ", LOCKED, " ", "a portion of the file",
       " ", "(os error 33)">>,
     <<"Input/output error", " ", "(os error 5)">>}

\* What one try_read meets: the bytes of the file, or a failure of
\* File::open or of read_to_end.
ReadOutcomes ==
    {[stage |-> "done", cause |-> <<>>, bytes |-> v] : v \in Values}
    \cup {[stage |-> st, cause |-> c, bytes |-> <<>>] :
             st \in {"open", "read"}, c \in Causes}

\* The paths of the file: in .whiteout, or below a directory named "locked".
AtomicPaths == {<<".whiteout", "local.toml">>, <<LOCKED, "local.toml">>}

NoError == [context |-> <<>>, source |-> <<>>]

\* AtomicFile::try_read
try_read(path, outcome) ==
    CASE outcome.stage = "open" ->
           [ok |-> FALSE, bytes |-> <<>>,
            err |-> [context |-> <<"Failed to open file: ">> \o Display(path),
                     source |-> outcome.cause]]
      [] outcome.stage = "read" ->
           [ok |-> FALSE, bytes |-> <<>>,
            err |-> [context |-> <<"Failed to read file content">>,
                     source |-> outcome.cause]]
      [] OTHER -> [ok |-> TRUE, bytes |-> outcome.bytes, err |-> NoError]

\* e.to_string()
to_string(e) == e.context

Running == [done |-> FALSE, ok |-> FALSE, bytes |-> <<>>, err |-> NoError]

Returned(r) == [done |-> TRUE, ok |-> r.ok, bytes |-> r.bytes, err |-> r.err]

(***************************************************************************)
(* SpecRead: one call of AtomicFile::read; every step is one pass of its   *)
(* loop, with what try_read meets chosen by the environment.               *)
(***************************************************************************)
InitRead ==
    /\ content = <<>>
    /\ orig = <<>>
    /\ prev = <<>>
    /\ ops = <<>>
    /\ fs \in {[path |-> p] : p \in AtomicPaths}
    /\ fs0 = fs
    /\ ret = Running
    /\ shadow = NoEntries
    /\ NoConc

\* One pass of `for attempt in 0..MAX_RETRIES`; ops holds what the earlier
\* passes met, so attempt = Len(ops).
ReadAttempt(outcome) ==
    /\ ~ret.done
    /\ Len(ops) < MAX_RETRIES
    /\ LET attempt == Len(ops)
           r == try_read(fs.path, outcome)
       IN ret' =
            IF r.ok THEN Returned(r)
            ELSE IF attempt < MAX_RETRIES - 1
            THEN IF \/ Contains(to_string(r.err), <<TEMPORARILY_UNAVAILABLE>>)
                    \/ Contains(to_string(r.err), <<LOCKED>>)
                 THEN Running
                 ELSE Returned(r)
            ELSE Returned(r)
    /\ ops' = Append(ops, outcome)
    /\ UNCHANGED <<content, orig, prev, fs, fs0, shadow>>
    /\ UNCHANGED concVars

NextRead == \E outcome \in ReadOutcomes : ReadAttempt(outcome)

SpecRead == InitRead /\ [][NextRead]_vars

(***************************************************************************)
(* C29.  Bounded read retry: AtomicFile::read makes at most 3 attempts; an *)
(* attempt is followed by another one only when it failed with a           *)
(* "temporarily unavailable" or "locked" error, and such a failure before  *)
(* the third attempt is retried; the first successful content is returned, *)
(* any other error is returned at once, and the third attempt returns.     *)
(***************************************************************************)
\* The attempt failed with a transient error of the operating system.
Transient(outcome) ==
    /\ outcome.stage # "done"
    /\ \/ Contains(outcome.cause, <<TEMPORARILY_UNAVAILABLE>>)
       \/ Contains(outcome.cause, <<LOCKED>>)

C29_BoundedReadRetry ==
    /\ Len(ops) <= MAX_RETRIES
    /\ \A i \in 1..(Len(ops) - 1) : Transient(ops[i])
    /\ Len(ops) = MAX_RETRIES => ret.done
    /\ ret.done =>
          LET last == ops[Len(ops)] IN
          IF last.stage = "done"
          THEN ret.ok /\ ret.bytes = last.bytes
          ELSE /\ ~ret.ok
               /\ ret.err.source = last.cause
               /\ Transient(last) => Len(ops) = MAX_RETRIES

(***************************************************************************)
(* C30.  Clean output does not depend on the store: the text that          *)
(* clean(C, path) returns against one store is the text it returns against *)
(* every other store on which it returns a text (it returns one on every   *)
(* store that can be loaded), so no stashed value reaches the committed    *)
(* text.                                                                   *)
(***************************************************************************)
\* Stores to compare with: none, empty, one holding values, an unreadable one.
StoreStates == {NewFs, InitFs, PreFs, CorruptFs}

C30_CleanIgnoresStore ==
    (ops = <<"clean">> /\ ret = "ok") =>
        \A f \in StoreStates :
            LET r == clean(orig, FilePath, f) IN
            /\ load_data(f).ok => r.ok
            /\ r.ok => r.out = content

\* An Inline line at line 1 was cleaned against a store that held "z" under
\* inline_1: the output is the committed value, the one an empty store
\* gives, and "z" is not in it.
C30_Witness ==
    /\ ops = <<"clean">>
    /\ ret = "ok"
    /\ orig = Text(<<L_inline, L_a>>, FALSE)
    /\ fs0 = PreFs
    /\ get_value(fs0, FilePath, InlineKey(1)).value = <<"z">>
    /\ content = Text(<<L_b, L_a>>, FALSE)
    /\ content = clean(orig, FilePath, NewFs).out
    /\ ~Contains(content, <<"z">>)

====
